---- MODULE Spec2Model ----
(***************************************************************************)
(* Quote resolution of the market dashboard (src/app.py): compute_card,    *)
(* the fetchers it calls (fetch_intraday, fetch_daily, fetch_daily_yahoo,  *)
(* fetch_daily_tiingo) and the st.cache_data TTL memoisation around them.  *)
(*                                                                         *)
(* Conventions.                                                            *)
(*  - An optional value (Python None / pandas NaN) is <<>>, a present      *)
(*    value v is <<v>>.                                                    *)
(*  - A DataFrame is [cols, rows, interval]: its column names, its rows in *)
(*    index order (each row [date, Open, Close] of optional values, date   *)
(*    being the instant of the row, so tz_localize / tz_convert leave it   *)
(*    unchanged) and attrs["interval"].                                    *)
(*  - A ticker symbol is the sequence of its tokens, the suffix ".T" being *)
(*    one token: "7011.T" is <<"7011", ".T">>.  None (and "") is <<>>.     *)
(*  - A Python float is the exact rational or integer it stands for;       *)
(*    division by 0.0 raises ZeroDivisionError as float / float does.      *)
(*  - A Python dict is a record; a raised exception is [raised |-> name].  *)
(***************************************************************************)
EXTENDS Integers, Sequences, FiniteSets, TLC

VARIABLES
    pc,          \* position in compute_card
    symbol,      \* compute_card argument
    rt_symbol,   \* compute_card argument (<<>> is None)
    provider,    \* compute_card argument
    tiingoKey,   \* whether get_tiingo_key() finds a key
    fd,          \* the running fetch_daily call: [symbol, days, provider, at]
    df_t,        \* fetch_daily's local df_t
    intra,       \* compute_card's local intra
    daily,       \* compute_card's local daily
    calls,       \* the cached-function calls made so far, with their upstream requests
    result,      \* what compute_card returned or raised
    clock,       \* seconds on the cache's timer
    cache,       \* st.cache_data entries: key -> <<>> or <<[value, fetchedAt]>>
    fetchTimes,  \* key -> the instants at which the function body ran
    callTimes,   \* key -> the instants at which the function was called
    lastCall     \* the most recent call through the cache

vars ==
    <<pc, symbol, rt_symbol, provider, tiingoKey, fd, df_t, intra, daily, calls,
      result, clock, cache, fetchTimes, callTimes, lastCall>>

cardVars ==
    <<pc, symbol, rt_symbol, provider, tiingoKey, fd, df_t, intra, daily, calls, result>>

cacheVars ==
    <<clock, cache, fetchTimes, callTimes, lastCall>>

-----------------------------------------------------------------------------
(* Values *)

None ==
    <<>>

Some(v) ==
    <<v>>

Row(d, o, c) ==
    [date |-> d, Open |-> o, Close |-> c]

EmptyDF ==
    [cols |-> {}, rows |-> <<>>, interval |-> None]

Frame(cs, rs) ==
    [cols |-> cs, rows |-> rs, interval |-> None]

\* df.empty
IsEmpty(df) ==
    df.cols = {} \/ Len(df.rows) = 0

\* df.dropna(subset=["Close"]) of a frame that has the column
DropnaClose(df) ==
    [df EXCEPT !.rows = SelectSeq(df.rows, LAMBDA r : r.Close # None)]

\* df["Close"].dropna() as the sequence of its values
Closes(df) ==
    LET kept == SelectSeq(df.rows, LAMBDA r : r.Close # None)
    IN  [i \in 1..Len(kept) |-> kept[i].Close[1]]

\* df["Close"].dropna().shape[0]
NumCloses(df) ==
    Len(Closes(df))

RECURSIVE GCD(_, _)
GCD(a, b) ==
    IF b = 0 THEN a ELSE GCD(b, a % b)

Abs(n) ==
    IF n < 0 THEN -n ELSE n

\* the rational n / d (d # 0) in lowest terms with a positive denominator
Rat(n, d) ==
    LET g == GCD(Abs(n), Abs(d))
        s == IF d < 0 THEN -1 ELSE 1
    IN  [num |-> s * (n \div g), den |-> s * (d \div g)]

-----------------------------------------------------------------------------
(* The upstream providers' answers *)

Raise(e) ==
    [kind |-> "raise", exc |-> e, df |-> EmptyDF]

Data(df) ==
    [kind |-> "data", exc |-> "", df |-> df]

\* yfinance history() returning None or an empty frame
NoData ==
    Data(EmptyDF)

\* one intraday bar whose Close is NaN
IF_nan ==
    Frame({"Open", "Close"}, <<Row(1, Some(100), None)>>)

\* a single stale tick
IF_one ==
    Frame({"Open", "Close"}, <<Row(1, Some(99), Some(100))>>)

\* eleven bars, the first without a Close: of the ten that have one, the
\* first Open is 99, the first Close 96 and the last Close 105
IF_ten ==
    Frame({"Open", "Close"},
          [i \in 1..11 |-> Row(i, Some(97 + i), IF i = 1 THEN None ELSE Some(94 + i))])

IntradayResponses ==
    {Raise("RateLimited"), Raise("Transient"), NoData, Data(IF_nan), Data(IF_one), Data(IF_ten)}

DailyRows(cs) ==
    [i \in 1..Len(cs) |-> Row(i, None, cs[i])]

D_noClose ==
    Frame({"Open"}, <<Row(1, Some(100), None), Row(2, Some(105), None)>>)

D_one ==
    Frame({"Close"}, DailyRows(<<None, Some(100)>>))

D_two ==
    Frame({"Close"}, DailyRows(<<Some(100), Some(105)>>))

D_zero ==
    Frame({"Close"}, DailyRows(<<Some(0), Some(5)>>))

D_gap ==
    Frame({"Close"}, DailyRows(<<Some(105), Some(100), None>>))

DailyResponses ==
    {Raise("RateLimited"), Raise("Transient"), NoData,
     Data(D_noClose), Data(D_one), Data(D_two), Data(D_zero), Data(D_gap)}

\* the argument of the call fetch_daily(...) : the Ellipsis object
ELLIPSIS ==
    <<"...">>

\* yf.Ticker(Ellipsis) is no ticker: constructing or querying it raises
YahooDailyAnswers(sym) ==
    IF sym = ELLIPSIS THEN {Raise("Transient")} ELSE DailyResponses

\* a Tiingo HTTP answer: an exception of requests.get / r.json(), or a status
\* code with the decoded JSON rows, each [date, close] (close optional), and
\* whether the rows carry the "date" and "close" fields
Http(code, fields, rows) ==
    [kind |-> "http", exc |-> "", status |-> code, fields |-> fields, rows |-> rows]

HttpRaise(e) ==
    [kind |-> "raise", exc |-> e, status |-> 0, fields |-> {}, rows |-> <<>>]

TiingoResponses ==
    {HttpRaise("Transient"),
     Http(429, {}, <<>>),
     Http(200, {}, <<>>),
     Http(200, {"date"}, <<[date |-> 1, close |-> None]>>),
     Http(200, {"date", "close"}, <<[date |-> 2, close |-> Some(105)], [date |-> 1, close |-> Some(100)]>>),
     Http(200, {"date", "close"}, <<[date |-> 1, close |-> Some(100)], [date |-> 2, close |-> None]>>)}

-----------------------------------------------------------------------------
(* Program constants *)

TTL_DAILY ==
    180

TTL_INTRADAY ==
    180

\* days=20, the default of fetch_daily, fetch_daily_yahoo and fetch_daily_tiingo
DEFAULT_DAYS ==
    20

\* days=15, what compute_card passes
CARD_DAYS ==
    15

\* the tiers of fetch_intraday, in the order of its for loop
INTERVALS ==
    <<"1m", "2m", "5m", "15m">>

\* the reason of a failed card, "shutoku dekimasen deshita" ("could not be
\* fetched") standing for the Japanese text of the source
REASON ==
    "shutoku dekimasen deshita"

-----------------------------------------------------------------------------
(* fetch_intraday *)

Req(what, resp) ==
    [what |-> what, resp |-> resp]

\* a variant in which a rate-limited tier ends the loop with an empty frame
IntradayTierAbortOnRateLimit(resp, interval) ==
    IF resp.kind = "raise"
    THEN IF resp.exc = "RateLimited" THEN Some(EmptyDF) ELSE None
    ELSE IF IsEmpty(resp.df) \/ "Close" \notin resp.df.cols THEN None
    ELSE IF IsEmpty(DropnaClose(resp.df)) THEN None
    ELSE Some([DropnaClose(resp.df) EXCEPT !.interval = Some(interval)])

\* a variant that asks for two points before it accepts a tier
IntradayTierTwoPoints(resp, interval) ==
    IF resp.kind = "raise" THEN None
    ELSE IF IsEmpty(resp.df) \/ "Close" \notin resp.df.cols THEN None
    ELSE IF Len(DropnaClose(resp.df).rows) < 2 THEN None
    ELSE Some([DropnaClose(resp.df) EXCEPT !.interval = Some(interval)])

\* one pass of the loop body: <<>> is "continue", <<df>> is "return df".
\* Any exception (of history(), or the KeyError of dropna on a frame without
\* a Close column) is caught and continues.
IntradayTier(resp, interval) ==
    IF resp.kind = "raise" THEN None
    ELSE IF IsEmpty(resp.df) THEN None
    ELSE IF "Close" \notin resp.df.cols THEN None
    ELSE IF IsEmpty(DropnaClose(resp.df)) THEN None
    ELSE Some([DropnaClose(resp.df) EXCEPT !.interval = Some(interval)])

\* the loop from tier i on, resps[i] being what the provider answers to the
\* request of tier i: the frame returned and the requests made, in order
RECURSIVE FetchIntradayFrom(_, _)
FetchIntradayFrom(i, resps) ==
    IF i > Len(INTERVALS)
    THEN [ret |-> EmptyDF, reqs |-> <<>>]
    ELSE LET got == IntradayTier(resps[i], INTERVALS[i])
             req == Req(INTERVALS[i], resps[i])
         IN  IF got # None
             THEN [ret |-> got[1], reqs |-> <<req>>]
             ELSE LET rest == FetchIntradayFrom(i + 1, resps)
                  IN  [ret |-> rest.ret, reqs |-> <<req>> \o rest.reqs]

fetch_intraday(resps) ==
    FetchIntradayFrom(1, resps)

-----------------------------------------------------------------------------
(* fetch_daily_yahoo *)

fetch_daily_yahoo(resp) ==
    [ret |-> IF resp.kind = "raise" THEN EmptyDF
             ELSE IF IsEmpty(resp.df) THEN EmptyDF
             ELSE IF "Close" \notin resp.df.cols THEN EmptyDF
             ELSE DropnaClose(resp.df),
     reqs |-> <<Req("1d", resp)>>]

-----------------------------------------------------------------------------
(* fetch_daily_tiingo *)

\* symbol.endswith(".T")
EndsWithT(sym) ==
    Len(sym) > 0 /\ sym[Len(sym)] = ".T"

\* symbol.replace(".T", "")
StripT(sym) ==
    SelectSeq(sym, LAMBDA t : t # ".T")

TiingoCandidates(sym) ==
    IF EndsWithT(sym)
    THEN <<sym, StripT(sym), <<"tse:">> \o StripT(sym)>>
    ELSE <<sym>>

\* df.set_index("date").sort_index(): the rows by ascending date
RECURSIVE SortByDate(_)
SortByDate(rows) ==
    IF Len(rows) <= 1 THEN rows
    ELSE LET m == CHOOSE i \in 1..Len(rows) :
                    \A j \in 1..Len(rows) :
                        rows[i].date < rows[j].date \/ (rows[i].date = rows[j].date /\ i <= j)
             others == [k \in 1..(Len(rows) - 1) |-> IF k < m THEN rows[k] ELSE rows[k + 1]]
         IN  <<rows[m]>> \o SortByDate(others)

\* the frame built from a usable answer: Open (absent in the answers modelled)
\* and Close columns, rows without a close dropped
TiingoFrame(rows) ==
    LET sorted == SortByDate(rows)
    IN  DropnaClose(Frame({"Open", "Close"},
                          [i \in 1..Len(sorted) |-> Row(sorted[i].date, None, sorted[i].close)]))

RECURSIVE TiingoFrom(_, _, _)
TiingoFrom(i, cands, resps) ==
    IF i > Len(cands)
    THEN [ret |-> EmptyDF, reqs |-> <<>>]
    ELSE LET r == resps[i]
             req == cands[i]
         IN  IF r.kind = "raise"
             THEN [ret |-> EmptyDF, reqs |-> <<req>>]
             ELSE IF r.status # 200 \/ Len(r.rows) = 0
                     \/ "date" \notin r.fields \/ "close" \notin r.fields
             THEN LET rest == TiingoFrom(i + 1, cands, resps)
                  IN  [ret |-> rest.ret, reqs |-> <<req>> \o rest.reqs]
             ELSE [ret |-> TiingoFrame(r.rows), reqs |-> <<req>>]

fetch_daily_tiingo(sym, key, resps) ==
    IF ~key
    THEN [ret |-> EmptyDF, reqs |-> <<>>]
    ELSE TiingoFrom(1, TiingoCandidates(sym), resps)

-----------------------------------------------------------------------------
(* fetch_daily *)

\* not df_t.empty and df_t["Close"].dropna().shape[0] >= 2
TiingoUsable(df) ==
    ~IsEmpty(df) /\ NumCloses(df) >= 2

-----------------------------------------------------------------------------
(* safe_last_price, safe_first_open *)

safe_last_price(df) ==
    IF "Close" \notin df.cols THEN None
    ELSE IF NumCloses(df) = 0 THEN None
    ELSE Some(Closes(df)[NumCloses(df)])

safe_first_open(df) ==
    LET opens == SelectSeq(df.rows, LAMBDA r : r.Open # None)
    IN  IF "Open" \notin df.cols THEN None
        ELSE IF Len(opens) = 0 THEN None
        ELSE Some(opens[1].Open[1])

-----------------------------------------------------------------------------
(* compute_card *)

\* rt_symbol or symbol
IntradaySym(sym, rt) ==
    IF rt # None THEN rt ELSE sym

\* a variant that goes to rt_symbol only when the primary series is empty
NeedsRtEmptyOnly(d, rt) ==
    IsEmpty(d) /\ rt # None

\* (daily.empty or daily["Close"].dropna().shape[0] < 2) and rt_symbol
NeedsRt(d, rt) ==
    (IsEmpty(d) \/ NumCloses(d) < 2) /\ rt # None

\* a failed card that forgets its reason
UnavailableNoReason ==
    [ok |-> FALSE]

Unavailable ==
    [ok |-> FALSE, reason |-> REASON]

\* closes.tail(30)
Tail30(s) ==
    IF Len(s) <= 30 THEN s ELSE SubSeq(s, Len(s) - 29, Len(s))

\* lines 330-352: the dict returned, or the exception raised
CardResult(d, rt) ==
    IF IsEmpty(d) \/ NumCloses(d) < 2
    THEN Unavailable
    ELSE LET closes == Closes(d)
             n == Len(closes)
             now == closes[n]
             prev == closes[n - 1]
             kept == DropnaClose(d).rows
         IN  IF prev = 0
             THEN [raised |-> "ZeroDivisionError"]
             ELSE [ok |-> TRUE,
                   mode |-> "CLOSE",
                   interval |-> "1d",
                   now |-> now,
                   base |-> prev,
                   chg |-> now - prev,
                   pct |-> Rat((now - prev) * 100, prev),
                   series |-> Tail30(closes),
                   last_ts |-> kept[n].date,
                   date_label |-> kept[n].date,
                   rt_used |-> (rt # None)]

-----------------------------------------------------------------------------
(* The inputs explored *)

Symbols ==
    {<<"7011", ".T">>}

RtSymbols ==
    {None, <<"YM=F">>}

Providers ==
    {"yahoo", "tiingo"}

NoResult ==
    [pending |-> TRUE]

NoCall ==
    [key |-> <<>>, at |-> 0, hit |-> FALSE, ret |-> EmptyDF, n |-> 0]

\* one call of a cached function: its arguments, the upstream requests its
\* body made, in order (with the answers, for the Yahoo fetchers; the ticker
\* asked for, for Tiingo), and the frame it returned
CallRec(site, fn, sym, days, out) ==
    [site |-> site, fn |-> fn, symbol |-> sym, days |-> days, reqs |-> out.reqs, ret |-> out.ret]

-----------------------------------------------------------------------------
(* compute_card, one action per call it makes *)

CardInit ==
    /\ pc = "idle"
    /\ symbol = None
    /\ rt_symbol = None
    /\ provider = "yahoo"
    /\ tiingoKey \in BOOLEAN
    /\ fd = None
    /\ df_t = EmptyDF
    /\ intra = EmptyDF
    /\ daily = EmptyDF
    /\ calls = <<>>
    /\ result = NoResult

\* render_market_row calls compute_card(it["symbol"], it.get("rt_symbol"), it.get("provider", "yahoo"))
ComputeCard ==
    /\ pc = "idle"
    /\ \E s \in Symbols, rt \in RtSymbols, p \in Providers :
        /\ symbol' = s
        /\ rt_symbol' = rt
        /\ provider' = p
    /\ pc' = "L299"
    /\ UNCHANGED <<tiingoKey, fd, df_t, intra, daily, calls, result>>
    /\ UNCHANGED cacheVars

\* line 299: intra = fetch_intraday(intraday_sym)
FetchIntraday ==
    /\ pc = "L299"
    /\ \E resps \in [1..Len(INTERVALS) -> IntradayResponses] :
        LET out == fetch_intraday(resps)
        IN  /\ intra' = out.ret
            /\ calls' = Append(calls, CallRec("L299", "fetch_intraday",
                                              IntradaySym(symbol, rt_symbol), 0, out))
    /\ pc' = "L300"
    /\ UNCHANGED <<symbol, rt_symbol, provider, tiingoKey, fd, df_t, daily, result>>
    /\ UNCHANGED cacheVars

\* the arguments of the fetch_daily call at lines 300, 325 and 328
DailyArgs(at) ==
    IF at = "L300" THEN [symbol |-> ELLIPSIS, days |-> DEFAULT_DAYS, provider |-> "yahoo"]
    ELSE IF at = "L325" THEN [symbol |-> symbol, days |-> CARD_DAYS, provider |-> provider]
    ELSE [symbol |-> rt_symbol, days |-> CARD_DAYS, provider |-> provider]

\* where compute_card goes on when the fetch_daily call at `at` returns
AfterDaily(at) ==
    IF at = "L300" THEN "L325"
    ELSE IF at = "L325" THEN "L327"
    ELSE "L330"

\* lines 300, 325, 328 and 244: fetch_daily is entered
FetchDailyEnter ==
    /\ pc \in {"L300", "L325", "L328"}
    /\ fd = None
    /\ LET a == DailyArgs(pc)
       IN  fd' = Some([symbol |-> a.symbol, days |-> a.days, provider |-> a.provider,
                       stage |-> IF a.provider = "tiingo" THEN "tiingo" ELSE "yahoo"])
    /\ df_t' = EmptyDF
    /\ UNCHANGED <<pc, symbol, rt_symbol, provider, tiingoKey, intra, daily, calls, result>>
    /\ UNCHANGED cacheVars

\* lines 245-247: df_t = fetch_daily_tiingo(...), returned when usable
FetchDailyTiingo ==
    /\ fd # None
    /\ fd[1].stage = "tiingo"
    /\ \E resps \in [1..Len(TiingoCandidates(fd[1].symbol)) -> TiingoResponses] :
        LET out == fetch_daily_tiingo(fd[1].symbol, tiingoKey, resps)
        IN  /\ df_t' = out.ret
            /\ calls' = Append(calls, CallRec(pc, "fetch_daily_tiingo", fd[1].symbol, fd[1].days, out))
            /\ IF TiingoUsable(out.ret)
               THEN /\ daily' = out.ret
                    /\ fd' = None
                    /\ pc' = AfterDaily(pc)
               ELSE /\ fd' = Some([fd[1] EXCEPT !.stage = "yahoo"])
                    /\ UNCHANGED <<daily, pc>>
    /\ UNCHANGED <<symbol, rt_symbol, provider, tiingoKey, intra, result>>
    /\ UNCHANGED cacheVars

\* line 248: return fetch_daily_yahoo(...)
FetchDailyYahoo ==
    /\ fd # None
    /\ fd[1].stage = "yahoo"
    /\ \E resp \in YahooDailyAnswers(fd[1].symbol) :
        LET out == fetch_daily_yahoo(resp)
        IN  /\ daily' = out.ret
            /\ calls' = Append(calls, CallRec(pc, "fetch_daily_yahoo", fd[1].symbol, fd[1].days, out))
    /\ fd' = None
    /\ pc' = AfterDaily(pc)
    /\ UNCHANGED <<symbol, rt_symbol, provider, tiingoKey, df_t, intra, result>>
    /\ UNCHANGED cacheVars

\* line 327: whether the daily series of rt_symbol is fetched
CheckPrimary ==
    /\ pc = "L327"
    /\ pc' = IF NeedsRt(daily, rt_symbol) THEN "L328" ELSE "L330"
    /\ UNCHANGED <<symbol, rt_symbol, provider, tiingoKey, fd, df_t, intra, daily, calls, result>>
    /\ UNCHANGED cacheVars

\* lines 330-352: the card is returned, or the division raises
Finish ==
    /\ pc = "L330"
    /\ result' = CardResult(daily, rt_symbol)
    /\ pc' = "done"
    /\ UNCHANGED <<symbol, rt_symbol, provider, tiingoKey, fd, df_t, intra, daily, calls>>
    /\ UNCHANGED cacheVars

-----------------------------------------------------------------------------
(* @st.cache_data(ttl=...) around fetch_daily_tiingo, fetch_daily_yahoo and *)
(* fetch_intraday: one in-memory entry per function and argument tuple,     *)
(* alive for ttl seconds after the body ran.                                *)

\* the clock advances by TickStep up to MaxClock; at most MaxCalls calls
MaxClock ==
    180

TickStep ==
    90

MaxCalls ==
    4

CacheSymbols ==
    {<<"7011", ".T">>, <<"YM=F">>}

CacheKeys ==
    {<<"fetch_intraday", <<s>>>> : s \in CacheSymbols}
        \cup {<<f, <<s, CARD_DAYS>>>> : f \in {"fetch_daily_yahoo", "fetch_daily_tiingo"},
                                        s \in CacheSymbols}

\* the ttl of the decorator of the function of key k
TTLOf(k) ==
    IF k[1] = "fetch_intraday" THEN TTL_INTRADAY ELSE TTL_DAILY

\* a variant that still serves an entry at the instant its ttl has elapsed
IsFreshInclusive(entry, now, ttl) ==
    entry # None /\ now - entry[1].fetchedAt <= ttl

\* whether the entry is served rather than the body run
IsFresh(entry, now, ttl) ==
    entry # None /\ now - entry[1].fetchedAt < ttl

\* a call with key k of a cached function whose body may return any of outs
Cached(k, outs) ==
    /\ callTimes' = [callTimes EXCEPT ![k] = Append(@, clock)]
    /\ IF IsFresh(cache[k], clock, TTLOf(k))
       THEN /\ lastCall' = [key |-> k, at |-> clock, hit |-> TRUE,
                            ret |-> cache[k][1].value, n |-> lastCall.n + 1]
            /\ UNCHANGED <<cache, fetchTimes>>
       ELSE \E ret \in outs :
                /\ cache' = [cache EXCEPT ![k] = Some([value |-> ret, fetchedAt |-> clock])]
                /\ fetchTimes' = [fetchTimes EXCEPT ![k] = Append(@, clock)]
                /\ lastCall' = [key |-> k, at |-> clock, hit |-> FALSE,
                                ret |-> ret, n |-> lastCall.n + 1]
    /\ UNCHANGED clock
    /\ UNCHANGED cardVars

\* what the provider answers while the cache is exercised
CacheIntradayAnswers ==
    {[i \in 1..Len(INTERVALS) |-> a] : a \in {NoData, Data(IF_one)}}

CacheYahooAnswers ==
    {NoData, Data(D_two)}

CacheTiingoAnswers(sym) ==
    {[i \in 1..Len(TiingoCandidates(sym)) |-> a] : a \in {Http(429, {}, <<>>), Http(200, {"date", "close"}, <<[date |-> 1, close |-> Some(100)], [date |-> 2, close |-> Some(105)]>>)}}

CachedFetchIntraday ==
    /\ lastCall.n < MaxCalls
    /\ \E s \in CacheSymbols :
        Cached(<<"fetch_intraday", <<s>>>>,
               {fetch_intraday(resps).ret : resps \in CacheIntradayAnswers})

CachedFetchDailyYahoo ==
    /\ lastCall.n < MaxCalls
    /\ \E s \in CacheSymbols :
        Cached(<<"fetch_daily_yahoo", <<s, CARD_DAYS>>>>,
               {fetch_daily_yahoo(resp).ret : resp \in CacheYahooAnswers})

CachedFetchDailyTiingo ==
    /\ lastCall.n < MaxCalls
    /\ \E s \in CacheSymbols :
        Cached(<<"fetch_daily_tiingo", <<s, CARD_DAYS>>>>,
               {fetch_daily_tiingo(s, tiingoKey, resps).ret : resps \in CacheTiingoAnswers(s)})

\* time passes between calls
Tick ==
    /\ clock + TickStep <= MaxClock
    /\ clock' = clock + TickStep
    /\ UNCHANGED <<cache, fetchTimes, callTimes, lastCall>>
    /\ UNCHANGED cardVars

CacheInit ==
    /\ clock = 0
    /\ cache = [k \in CacheKeys |-> None]
    /\ fetchTimes = [k \in CacheKeys |-> <<>>]
    /\ callTimes = [k \in CacheKeys |-> <<>>]
    /\ lastCall = NoCall

Init ==
    /\ CardInit
    /\ CacheInit

Next ==
    \/ ComputeCard
    \/ FetchIntraday
    \/ FetchDailyEnter
    \/ FetchDailyTiingo
    \/ FetchDailyYahoo
    \/ CheckPrimary
    \/ Finish

Spec ==
    Init /\ [][Next]_vars

NextCache ==
    \/ Tick
    \/ CachedFetchIntraday
    \/ CachedFetchDailyYahoo
    \/ CachedFetchDailyTiingo

SpecCache ==
    Init /\ [][NextCache]_vars

-----------------------------------------------------------------------------
(* What the claims are stated with *)

\* d.get(k): <<>> when the dict has no such key
Get(d, k) ==
    IF k \in DOMAIN d THEN Some(d[k]) ELSE None

Done ==
    pc = "done"

\* compute_card returned a dict
Returned ==
    "ok" \in DOMAIN result

\* the cached-function calls made by the fetch_daily call at a line
SiteCalls(site) ==
    SelectSeq(calls, LAMBDA c : c.site = site)

\* whether fetch_daily was called at the line
Fetched(site) ==
    Len(SiteCalls(site)) > 0

\* what the fetch_daily call at the line returned
DailyRet(site) ==
    SiteCalls(site)[Len(SiteCalls(site))].ret

\* every daily candidate that was fetched gave fewer than 2 closes
AllCandidatesFailed ==
    \A site \in {"L325", "L328"} : Fetched(site) => NumCloses(DailyRet(site)) < 2

\* the points of a provider's answer once rows without a Close are dropped
Points(resp) ==
    IF resp.kind = "raise" \/ "Close" \notin resp.df.cols
    THEN <<>>
    ELSE SelectSeq(resp.df.rows, LAMBDA r : r.Close # None)

RateLimitedAt(c, j) ==
    c.fn # "fetch_daily_tiingo" /\ c.reqs[j].resp = Raise("RateLimited")

-----------------------------------------------------------------------------
(* The claims *)

\* C1: compute_card never raises: whatever the providers answer it returns a
\* snapshot, and when no daily series with 2 closes is left the snapshot is
\* ok=false with a reason.
C1_NeverRaises ==
    Done => /\ Returned
            /\ AllCandidatesFailed => (result.ok = FALSE /\ "reason" \in DOMAIN result)

\* C2: when the intraday series has at least 10 points, the snapshot that
\* compute_card returns has mode=INTRADAY, base = the series' first Open (first
\* Close when there is no Open) and now = the series' last Close.
C2_IntradayMode ==
    (Done /\ Len(intra.rows) >= 10 /\ Returned) =>
        /\ Get(result, "mode") = Some("INTRADAY")
        /\ Get(result, "base") = IF safe_first_open(intra) # None
                                 THEN safe_first_open(intra)
                                 ELSE Some(Closes(intra)[1])
        /\ Get(result, "now") = safe_last_price(intra)

\* C3: when there is no intraday series and the daily series has at least 2
\* closes, the snapshot is the daily one (mode "CLOSE" in the code) with
\* base = the second-to-last close, now = the last close and chg = now - base;
\* closes 100, 105 give base 100, now 105, chg 5, pct 5.
C3_DailyFallback ==
    (Done /\ IsEmpty(intra) /\ NumCloses(daily) >= 2) =>
        LET closes == Closes(daily)
            n == Len(closes)
        IN  /\ Returned
            /\ Get(result, "mode") = Some("CLOSE")
            /\ Get(result, "base") = Some(closes[n - 1])
            /\ Get(result, "now") = Some(closes[n])
            /\ Get(result, "chg") = Some(closes[n] - closes[n - 1])
            /\ (closes = <<100, 105>>) => (result.chg = 5 /\ result.pct = [num |-> 5, den |-> 1])

\* C4: in every snapshot pct = (now / base - 1) * 100 exactly when base is
\* non-null and non-zero, pct and chg being null otherwise; a previous close
\* of 0 gives a snapshot with null change, not a division by zero.
C4_ChangePct ==
    Done =>
        /\ Returned
        /\ LET base == Get(result, "base")
           IN  IF base # None /\ base[1] # 0
               THEN /\ result.pct.num * base[1] = (result.now - base[1]) * 100 * result.pct.den
                    /\ result.chg = result.now - base[1]
               ELSE Get(result, "pct") = None /\ Get(result, "chg") = None

\* C5: a RateLimited answer stops resolution at once: no request follows it,
\* and the snapshot is ok=false with a reason that differs from the reason of
\* an ordinary empty series.
C5_RateLimitStops ==
    Done =>
        \A i \in 1..Len(calls) : \A j \in 1..Len(calls[i].reqs) :
            RateLimitedAt(calls[i], j) =>
                /\ j = Len(calls[i].reqs)
                /\ i = Len(calls)
                /\ Returned
                /\ result.ok = FALSE
                /\ Get(result, "reason") \notin {None, Some(REASON)}

\* C5 as amended: a RateLimited answer is handled like any other upstream
\* error. In fetch_intraday the next tier is still requested; the daily
\* fetcher returns an empty series for it; compute_card still fetches the
\* primary daily series, and the rt_symbol one when the primary has fewer than
\* 2 closes; and an ok=false snapshot carries the one reason of the code.
C5_RateLimitFallsThrough ==
    Done =>
        /\ \A j \in 1..Len(calls[1].reqs) :
               (RateLimitedAt(calls[1], j) /\ j < 4) => Len(calls[1].reqs) > j
        /\ \A i \in 2..Len(calls) :
               (calls[i].fn = "fetch_daily_yahoo" /\ RateLimitedAt(calls[i], 1)) =>
                   /\ calls[i].ret = EmptyDF
                   /\ (calls[i].site = "L325" /\ rt_symbol # None) => Fetched("L328")
        /\ Fetched("L325")
        /\ (Returned /\ ~result.ok) => result = [ok |-> FALSE, reason |-> REASON]

\* a card that is ok although the first intraday tier and the primary daily
\* fetch were rate limited
C5_Witness ==
    /\ Done
    /\ RateLimitedAt(calls[1], 1)
    /\ Len(calls[1].reqs) = 2
    /\ \E i \in 2..Len(calls) : calls[i].site = "L325" /\ RateLimitedAt(calls[i], 1)
    /\ Returned
    /\ result.ok

C7_FirstCandidateOk ==
    (Done /\ NumCloses(DailyRet("L325")) >= 2) => (Returned /\ result.ok)

\* C8: when every candidate gives fewer than 2 closes the snapshot is ok=false
\* with mode=UNAVAILABLE and reason="EmptySeries", and an UNAVAILABLE snapshot
\* has neither now nor base.
C8_EmptySeries ==
    (Done /\ AllCandidatesFailed) =>
        /\ Returned
        /\ result.ok = FALSE
        /\ Get(result, "mode") = Some("UNAVAILABLE")
        /\ Get(result, "reason") = Some("EmptySeries")
        /\ Get(result, "now") = None
        /\ Get(result, "base") = None

\* C8 as amended: when every candidate gives fewer than 2 closes the snapshot
\* is exactly {ok: false, reason: REASON}, without a mode; and every ok=false
\* snapshot has no mode, no now and no base.
C8_Unavailable ==
    Done =>
        /\ AllCandidatesFailed => result = [ok |-> FALSE, reason |-> REASON]
        /\ (Returned /\ ~result.ok) =>
               /\ AllCandidatesFailed
               /\ Get(result, "reason") = Some(REASON)
               /\ Get(result, "mode") = None
               /\ Get(result, "now") = None
               /\ Get(result, "base") = None

\* both the primary symbol and rt_symbol were fetched and gave too little
C8_Witness ==
    /\ Done
    /\ Fetched("L325")
    /\ Fetched("L328")
    /\ AllCandidatesFailed
    /\ Returned
    /\ ~result.ok

\* C9: fetch_intraday requests the tiers 1m, 2m, 5m, 15m in this order and
\* returns the first series that has at least 2 points once rows without a
\* Close are dropped, tagged with its tier; tiers with fewer points or an
\* error fall through, nothing is requested after the chosen tier, and the
\* result is absent only when all four failed.
C9_TwoPoints ==
    Len(calls) >= 1 =>
        LET reqs == calls[1].reqs
            n == Len(reqs)
        IN  /\ n \in 1..4
            /\ \A j \in 1..n : reqs[j].what = <<"1m", "2m", "5m", "15m">>[j]
            /\ \A j \in 1..(n - 1) : Len(Points(reqs[j].resp)) < 2
            /\ IF Len(Points(reqs[n].resp)) >= 2
               THEN /\ calls[1].ret.rows = Points(reqs[n].resp)
                    /\ calls[1].ret.interval = Some(reqs[n].what)
               ELSE n = 4 /\ IsEmpty(calls[1].ret)

\* C9 as amended: the same with "at least 1 point": the first tier whose
\* series is non-empty once rows without a Close are dropped is returned.
C9_FirstNonEmptyTier ==
    Len(calls) >= 1 =>
        LET reqs == calls[1].reqs
            n == Len(reqs)
        IN  /\ n \in 1..4
            /\ \A j \in 1..n : reqs[j].what = <<"1m", "2m", "5m", "15m">>[j]
            /\ \A j \in 1..(n - 1) : Len(Points(reqs[j].resp)) < 1
            /\ IF Len(Points(reqs[n].resp)) >= 1
               THEN /\ calls[1].ret.rows = Points(reqs[n].resp)
                    /\ calls[1].ret.interval = Some(reqs[n].what)
               ELSE n = 4 /\ IsEmpty(calls[1].ret)

\* 1m raised, 2m had only a bar without a Close, 5m gave eleven bars of which
\* ten are kept
C9_Witness ==
    /\ Len(calls) >= 1
    /\ Len(calls[1].reqs) = 3
    /\ calls[1].reqs[1].resp = Raise("Transient")
    /\ calls[1].reqs[2].resp = Data(IF_nan)
    /\ calls[1].reqs[3].resp = Data(IF_ten)
    /\ Len(calls[1].ret.rows) = 10
    /\ calls[1].ret.interval = Some("5m")

\* C10: the daily sources are tried in order and the first with at least 2
\* closes is used, later ones not being fetched: rt_symbol is fetched exactly
\* when the primary symbol gave fewer than 2 closes and rt_symbol is set, after
\* the primary; with provider "tiingo" Tiingo is fetched first and returned
\* exactly when it has at least 2 closes, Yahoo being fetched and returned
\* otherwise; with any other provider only Yahoo is fetched.
C10_CandidateOrder ==
    Done =>
        /\ Fetched("L325")
        /\ Fetched("L328") <=> (NumCloses(DailyRet("L325")) < 2 /\ rt_symbol # None)
        /\ \A i, j \in 1..Len(calls) :
               (calls[i].site = "L325" /\ calls[j].site = "L328") => i < j
        /\ daily = IF Fetched("L328") THEN DailyRet("L328") ELSE DailyRet("L325")
        /\ \A site \in {"L325", "L328"} : Fetched(site) =>
               LET sc == SiteCalls(site)
               IN  /\ \A i \in 1..Len(sc) :
                          sc[i].symbol = (IF site = "L325" THEN symbol ELSE rt_symbol)
                   /\ IF provider = "tiingo"
                      THEN /\ sc[1].fn = "fetch_daily_tiingo"
                           /\ IF NumCloses(sc[1].ret) >= 2
                              THEN Len(sc) = 1
                              ELSE Len(sc) = 2 /\ sc[2].fn = "fetch_daily_yahoo"
                      ELSE Len(sc) = 1 /\ sc[1].fn = "fetch_daily_yahoo"

\* provider tiingo: for the primary symbol Tiingo and then Yahoo gave too
\* little, for rt_symbol Tiingo gave 2 closes and Yahoo was not fetched
C10_Witness ==
    /\ Done
    /\ provider = "tiingo"
    /\ Len(SiteCalls("L325")) = 2
    /\ Len(SiteCalls("L328")) = 1
    /\ Returned
    /\ result.ok

====
